---- MODULE Spec2Model ----
(***************************************************************************)
(* A model of sudoku.py: the single-candidate propagation pass             *)
(* (simple_algorithm), the module-level run that calls it and asks whether *)
(* to continue, and the backtracking search that the design describes as   *)
(* the second phase.                                                       *)
(*                                                                         *)
(* Python names are kept.  r, c and value are the function-local variables *)
(* of simple_algorithm: every for loop that names them assigns them, and a *)
(* list comprehension has a scope of its own, so a comprehension's own     *)
(* loop variable never changes them.                                       *)
(***************************************************************************)
EXTENDS Integers, Sequences, FiniteSets, TLC

\* range(9): the side of the grid
N == 9
\* the side of a box, get_box_start
BoxSide == 3
\* MaxErase: how many givens of a base puzzle an input may have erased
MaxErase == 2

Idx == 0 .. (N - 1)
Digits == 1 .. N
Cells == Idx \X Idx

----------------------------------------------------------------------------
(* The puzzle strings of the CSV: 81 digits, row-major, 0 for a blank.     *)

\* a complete grid
Solved ==
    << 5, 3, 4, 6, 7, 8, 9, 1, 2,
       6, 7, 2, 1, 9, 5, 3, 4, 8,
       1, 9, 8, 3, 4, 2, 5, 6, 7,
       8, 5, 9, 7, 6, 1, 4, 2, 3,
       4, 2, 6, 8, 5, 3, 7, 9, 1,
       7, 1, 3, 9, 2, 4, 8, 5, 6,
       9, 6, 1, 5, 3, 7, 2, 8, 4,
       2, 8, 7, 4, 1, 9, 6, 3, 5,
       3, 4, 5, 2, 8, 6, 1, 7, 9 >>

\* solvable, no naked single, hidden singles in rows 7 and 8
PuzzleMisplace ==
    << 5, 3, 4, 6, 7, 8, 9, 1, 2,
       6, 7, 2, 1, 9, 5, 3, 4, 8,
       1, 9, 8, 3, 4, 2, 5, 6, 7,
       8, 5, 9, 7, 6, 1, 4, 2, 3,
       4, 2, 6, 8, 5, 3, 7, 9, 1,
       0, 1, 0, 9, 2, 4, 8, 5, 6,
       9, 6, 1, 5, 3, 7, 2, 8, 4,
       0, 8, 0, 4, 1, 9, 6, 0, 5,
       0, 4, 5, 2, 8, 6, 1, 0, 9 >>

\* solvable, no naked single, hidden singles in rows 4 and 5
PuzzleLoop ==
    << 5, 3, 4, 6, 7, 8, 9, 1, 2,
       6, 7, 2, 1, 9, 5, 3, 4, 8,
       1, 9, 8, 3, 4, 2, 5, 6, 7,
       0, 5, 9, 0, 6, 1, 4, 2, 3,
       0, 2, 6, 0, 5, 3, 0, 9, 1,
       0, 1, 3, 0, 2, 4, 0, 5, 6,
       9, 6, 1, 5, 3, 7, 2, 8, 4,
       2, 8, 7, 4, 1, 9, 6, 3, 5,
       3, 4, 5, 2, 8, 6, 1, 7, 9 >>

\* exactly one solution (Solved), no naked single at the start
PuzzleUnique ==
    << 0, 3, 4, 0, 7, 8, 0, 0, 2,
       0, 7, 2, 0, 9, 0, 3, 4, 8,
       1, 9, 8, 3, 4, 2, 0, 6, 0,
       8, 5, 9, 7, 6, 1, 4, 2, 3,
       4, 2, 6, 8, 5, 3, 0, 0, 1,
       7, 1, 3, 9, 2, 4, 8, 5, 6,
       9, 6, 1, 5, 3, 7, 2, 8, 4,
       2, 8, 7, 4, 1, 0, 0, 3, 0,
       3, 4, 5, 2, 8, 0, 1, 0, 0 >>

\* no duplicate given, no solution: two cells of row 0 can only hold 3
PuzzleTwin ==
    << 5, 0, 4, 0, 7, 8, 9, 1, 2,
       6, 7, 2, 1, 9, 5, 3, 4, 8,
       1, 9, 8, 6, 4, 2, 5, 0, 7,
       8, 5, 9, 7, 6, 1, 4, 2, 3,
       4, 2, 6, 8, 5, 3, 7, 9, 1,
       0, 1, 3, 9, 2, 4, 8, 5, 6,
       9, 6, 1, 5, 3, 7, 2, 8, 4,
       2, 8, 7, 4, 1, 9, 6, 3, 5,
       3, 4, 5, 2, 8, 6, 1, 7, 9 >>

\* no duplicate given, no solution: cell (3,0) has no candidate
PuzzleDead ==
    << 5, 3, 4, 0, 0, 8, 9, 1, 2,
       6, 7, 2, 1, 9, 5, 3, 4, 8,
       1, 9, 8, 3, 4, 2, 5, 6, 7,
       0, 5, 9, 0, 0, 1, 8, 2, 3,
       4, 2, 6, 8, 5, 3, 7, 9, 1,
       7, 1, 3, 9, 2, 4, 0, 5, 6,
       9, 6, 1, 5, 3, 7, 2, 8, 4,
       2, 8, 7, 4, 1, 9, 6, 3, 5,
       3, 4, 5, 2, 8, 6, 1, 7, 9 >>

Puzzles ==
    { Solved, PuzzleMisplace, PuzzleLoop, PuzzleUnique, PuzzleTwin, PuzzleDead }

\* the positions (1..81) of a puzzle string whose digit an input may lack
Pool == { 1, 9, 13, 30, 41, 52, 62, 81 }

Erase(p, X) == [k \in 1 .. (N * N) |-> IF k \in X THEN 0 ELSE p[k]]

PuzzleStrings ==
    { Erase(p, X) : p \in Puzzles,
                    X \in { Y \in SUBSET Pool : Cardinality(Y) <= MaxErase } }

----------------------------------------------------------------------------
(* Pure helpers.                                                           *)

string_to_grid(puzzle_string) ==
    [cell \in Cells |-> puzzle_string[N * cell[1] + cell[2] + 1]]

get_box_start(index) == (index \div BoxSide) * BoxSide

\* grid[r, :]
RowValues(g, rr) == { g[rr, cc] : cc \in Idx }
\* grid[:, c]
ColValues(g, cc) == { g[rr, cc] : rr \in Idx }
\* grid[r_start:r_start+3, c_start:c_start+3].flatten()
BoxValues(g, r_start, c_start) ==
    { g[rr, cc] : rr \in r_start .. (r_start + BoxSide - 1),
                  cc \in c_start .. (c_start + BoxSide - 1) }

possible_values(g, rr, cc) ==
    ((Digits \ RowValues(g, rr)) \ ColValues(g, cc))
        \ BoxValues(g, get_box_start(rr), get_box_start(cc))

\* the dict built by the two nested loops: a key for every empty cell
CandidateMap(g) ==
    [cell \in { q \in Cells : g[q] = 0 } |-> possible_values(g, cell[1], cell[2])]

\* all cells in the order the nested loops visit them
RowMajor == [k \in 1 .. (N * N) |-> << (k - 1) \div N, (k - 1) % N >>]

\* candidates.items(): the keys in insertion order
Keys(cands) == SelectSeq(RowMajor, LAMBDA q : q \in DOMAIN cands)

\* [(r, c) for c in range(9) if grid[r, c] == 0]
RowEmptyCells(g, rr) ==
    SelectSeq([k \in 1 .. N |-> << rr, k - 1 >>], LAMBDA q : g[q] = 0)
\* [(r, c) for r in range(9) if grid[r, c] == 0]
ColEmptyCells(g, cc) ==
    SelectSeq([k \in 1 .. N |-> << k - 1, cc >>], LAMBDA q : g[q] = 0)
\* box_empty_cells
BoxEmptyCells(g, r_start, c_start) ==
    SelectSeq([k \in 1 .. N |-> << r_start + ((k - 1) \div BoxSide),
                                  c_start + ((k - 1) % BoxSide) >>],
              LAMBDA q : g[q] = 0)

\* the cells of empty_cells whose candidate set holds v
Qualifying(empty_cells, v, cands) ==
    SelectSeq(empty_cells, LAMBDA q : v \in cands[q])

\* [(r, c) for r_cell, c_cell in empty_cells if value in candidates[...]]:
\* one element per qualifying cell, each the pair (r, c) of the enclosing
\* function's variables
can_hold_value(empty_cells, v, cands, rr, cc) ==
    [k \in 1 .. Len(Qualifying(empty_cells, v, cands)) |-> << rr, cc >>]

\* the 27 units: rows, columns, boxes
Units ==
    { { << rr, cc >> : cc \in Idx } : rr \in Idx }
      \cup { { << rr, cc >> : rr \in Idx } : cc \in Idx }
      \cup { { << BoxSide * br + a, BoxSide * bc + b >> :
                   a \in 0 .. (BoxSide - 1), b \in 0 .. (BoxSide - 1) } :
             br \in 0 .. (BoxSide - 1), bc \in 0 .. (BoxSide - 1) }

\* no unit holds a nonzero digit twice
Valid(g) ==
    \A U \in Units : \A p \in U, q \in U : (p # q /\ g[p] # 0) => g[p] # g[q]

----------------------------------------------------------------------------
VARIABLES
    input,              \* the module-level grid (line 43)
    grid,               \* simple_algorithm's grid, the copy of line 169
    candidates,
    made_a_placement,
    grid_changed,
    r, c, value,        \* locals of simple_algorithm
    i,                  \* position of the running for loop
    pc,
    solved_SC_grid,
    solved_fully,
    first,              \* the result of an earlier call, << >> when none
    board,              \* the Board of the search phase
    stack,              \* the cell and digit of every search invocation in progress
    recursive_calls,
    backtracks,
    result              \* what the last search invocation reported

prop == << grid, candidates, made_a_placement, grid_changed, r, c, value, i >>
search == << board, stack, recursive_calls, backtracks, result >>

vars == << input, prop, pc, solved_SC_grid, solved_fully, first, search >>

Init ==
    /\ input \in { g \in { string_to_grid(s) : s \in PuzzleStrings } : Valid(g) }
    /\ grid = input
    /\ candidates = << >>
    /\ made_a_placement = FALSE
    /\ grid_changed = FALSE
    /\ r = 0 /\ c = 0 /\ value = 0 /\ i = 0
    /\ pc = "call"
    /\ solved_SC_grid = input
    /\ solved_fully = FALSE
    /\ first = << >>
    /\ board = input
    /\ stack = << >>
    /\ recursive_calls = 0
    /\ backtracks = 0
    /\ result = FALSE

\* simple_algorithm(grid.copy()), grid_changed = False
Call ==
    /\ pc = "call"
    /\ grid' = input
    /\ grid_changed' = FALSE
    /\ pc' = "compute"
    /\ UNCHANGED << input, candidates, made_a_placement, r, c, value, i,
                    solved_SC_grid, solved_fully,
                    first, search >>

\* the top of the while loop and the candidate computation
ComputeCandidates ==
    /\ pc = "compute"
    /\ made_a_placement' = FALSE
    /\ candidates' = CandidateMap(grid)
    /\ r' = N - 1
    /\ c' = N - 1
    /\ i' = 1
    /\ pc' = "naked"
    /\ UNCHANGED << input, grid, grid_changed, value, solved_SC_grid, solved_fully,
                    first, search >>

\* NakedSingle without the grid_changed = True of the naked-single branch
NakedSingleSilent ==
    /\ pc = "naked"
    /\ i <= Len(Keys(candidates))
    /\ LET key == Keys(candidates)[i] IN
         /\ r' = key[1]
         /\ c' = key[2]
         /\ IF Cardinality(candidates[key]) = 1
              THEN LET v == CHOOSE x \in candidates[key] : TRUE IN
                     /\ value' = v
                     /\ candidates' = [candidates EXCEPT ![key] = {}]
                     /\ grid' = [grid EXCEPT ![key] = v]
                     /\ made_a_placement' = TRUE
              ELSE UNCHANGED << value, candidates, grid, made_a_placement >>
    /\ i' = i + 1
    /\ UNCHANGED << input, pc, grid_changed, solved_SC_grid, solved_fully,
                    first, search >>

\* one iteration of: for (r, c), possible_values in candidates.items()
NakedSingle ==
    /\ pc = "naked"
    /\ i <= Len(Keys(candidates))
    /\ LET key == Keys(candidates)[i] IN
         /\ r' = key[1]
         /\ c' = key[2]
         /\ IF Cardinality(candidates[key]) = 1
              THEN LET v == CHOOSE x \in candidates[key] : TRUE IN
                     /\ value' = v
                     /\ candidates' = [candidates EXCEPT ![key] = {}]
                     /\ grid' = [grid EXCEPT ![key] = v]
                     /\ made_a_placement' = TRUE
                     /\ grid_changed' = TRUE
              ELSE UNCHANGED << value, candidates, grid, made_a_placement,
                                grid_changed >>
    /\ i' = i + 1
    /\ UNCHANGED << input, pc, solved_SC_grid, solved_fully, first, search >>

\* the loop is over: if made_a_placement: continue, else for value in ...
NakedDone ==
    /\ pc = "naked"
    /\ i > Len(Keys(candidates))
    /\ IF made_a_placement
         THEN /\ pc' = "compute"
              /\ UNCHANGED << value, i >>
         ELSE /\ pc' = "rows"
              /\ value' = 1
              /\ i' = 0
    /\ UNCHANGED << input, grid, candidates, made_a_placement, grid_changed,
                    r, c, solved_SC_grid, solved_fully,
                    first, search >>

\* the assignment every hidden-single branch makes when the list has length 1
Place(hold) ==
    IF Len(hold) = 1
      THEN /\ grid' = [grid EXCEPT ![hold[1]] = value]
           /\ made_a_placement' = TRUE
           /\ grid_changed' = TRUE
      ELSE UNCHANGED << grid, made_a_placement, grid_changed >>

\* the list the row branch builds in iteration i: r is the loop variable,
\* c is whatever the function's c holds
RowHold == can_hold_value(RowEmptyCells(grid, i), value, candidates, i, c)

\* the list the column branch builds: c is the loop variable, r is stale
ColHold == can_hold_value(ColEmptyCells(grid, i), value, candidates, r, i)

\* the list the box branch builds: r and c are where the two inner loops
\* that collect box_empty_cells left them
BoxHold ==
    LET r_start == BoxSide * (i \div BoxSide)
        c_start == BoxSide * (i % BoxSide)
    IN  can_hold_value(BoxEmptyCells(grid, r_start, c_start), value, candidates,
                       r_start + BoxSide - 1, c_start + BoxSide - 1)

\* one iteration of: for r in range(9)
HiddenRow ==
    /\ pc = "rows"
    /\ r' = i
    /\ Place(RowHold)
    /\ IF i = N - 1 THEN pc' = "cols" /\ i' = 0
                    ELSE pc' = pc /\ i' = i + 1
    /\ UNCHANGED << input, candidates, c, value, solved_SC_grid, solved_fully,
                    first, search >>

\* one iteration of: for c in range(9)
HiddenCol ==
    /\ pc = "cols"
    /\ c' = i
    /\ Place(ColHold)
    /\ IF i = N - 1 THEN pc' = "boxes" /\ i' = 0
                    ELSE pc' = pc /\ i' = i + 1
    /\ UNCHANGED << input, candidates, r, value, solved_SC_grid, solved_fully,
                    first, search >>

\* one iteration of: for r_start ... for c_start ...; i counts the boxes
HiddenBox ==
    /\ pc = "boxes"
    /\ r' = BoxSide * (i \div BoxSide) + BoxSide - 1
    /\ c' = BoxSide * (i % BoxSide) + BoxSide - 1
    /\ Place(BoxHold)
    /\ IF i < N - 1
         THEN pc' = pc /\ i' = i + 1 /\ value' = value
         ELSE IF value < N
                THEN pc' = "rows" /\ i' = 0 /\ value' = value + 1
                ELSE pc' = "endpass" /\ i' = i /\ value' = value
    /\ UNCHANGED << input, candidates, solved_SC_grid, solved_fully,
                    first, search >>

\* EndPass that leaves the while loop after the hidden-single branches
\* whether or not they placed a digit
EndPassBreak ==
    /\ pc = "endpass"
    /\ pc' = "return"
    /\ UNCHANGED << input, prop, solved_SC_grid, solved_fully, first, search >>

\* if made_a_placement: continue, else: break
EndPass ==
    /\ pc = "endpass"
    /\ pc' = IF made_a_placement THEN "compute" ELSE "return"
    /\ UNCHANGED << input, prop, solved_SC_grid, solved_fully, first, search >>

\* return grid, grid_changed
Return ==
    /\ pc = "return"
    /\ solved_SC_grid' = grid
    /\ solved_fully' = grid_changed
    /\ pc' = "prompt"
    /\ UNCHANGED << input, prop, first, search >>

----------------------------------------------------------------------------
(* The module-level run after simple_algorithm has returned.               *)

\* BF_response = input(): 'y' goes on to the search, anything else exits
Prompt ==
    /\ pc = "prompt"
    /\ \E BF_response \in { "y", "n" } :
         IF BF_response = "y"
           THEN /\ pc' = "solve"
                /\ board' = solved_SC_grid
                /\ stack' = << >>
                /\ recursive_calls' = 0
                /\ backtracks' = 0
                /\ result' = FALSE
           ELSE /\ pc' = "exit"
                /\ UNCHANGED search
    /\ UNCHANGED << input, prop, solved_SC_grid, solved_fully, first >>

----------------------------------------------------------------------------
(* The backtracking search, section 4.3 of the design.                     *)

\* row-major scan for the first cell holding 0; << >> when the grid is full
findNextEmptyCell(b) ==
    LET empty == SelectSeq(RowMajor, LAMBDA q : b[q] = 0)
    IN  IF Len(empty) = 0 THEN << >> ELSE empty[1]

isValidPlacement(b, rr, cc, num) ==
    /\ num \notin RowValues(b, rr)
    /\ num \notin ColValues(b, cc)
    /\ num \notin BoxValues(b, get_box_start(rr), get_box_start(cc))

\* steps 1 and 2 of one invocation
SolveEnter ==
    /\ pc = "solve"
    /\ recursive_calls' = recursive_calls + 1
    /\ LET cell == findNextEmptyCell(board) IN
         IF cell = << >>
           THEN /\ result' = TRUE
                /\ pc' = "ret"
                /\ stack' = stack
           ELSE /\ stack' = Append(stack, [cell |-> cell, num |-> 1])
                /\ pc' = "try"
                /\ result' = result
    /\ UNCHANGED << input, prop, solved_SC_grid, solved_fully, first, board,
                    backtracks >>

\* steps 3a and 3b for the digit the top invocation is at
SolveTry ==
    /\ pc = "try"
    /\ LET top == stack[Len(stack)] IN
         /\ top.num <= N
         /\ IF isValidPlacement(board, top.cell[1], top.cell[2], top.num)
              THEN /\ board' = [board EXCEPT ![top.cell] = top.num]
                   /\ pc' = "solve"
                   /\ stack' = stack
              ELSE /\ stack' = [stack EXCEPT ![Len(stack)].num = top.num + 1]
                   /\ pc' = pc
                   /\ board' = board
    /\ UNCHANGED << input, prop, solved_SC_grid, solved_fully, first,
                    recursive_calls, backtracks, result >>

\* step 4: all nine digits tried, the invocation reports failure
SolveExhausted ==
    /\ pc = "try"
    /\ stack[Len(stack)].num > N
    /\ stack' = SubSeq(stack, 1, Len(stack) - 1)
    /\ result' = FALSE
    /\ pc' = "ret"
    /\ UNCHANGED << input, prop, solved_SC_grid, solved_fully, first, board,
                    recursive_calls, backtracks >>

\* SolveReturn that counts the backtrack and leaves the digit in the cell
SolveReturnKeep ==
    /\ pc = "ret"
    /\ IF stack = << >>
         THEN /\ pc' = IF result THEN "solved" ELSE "failed"
              /\ UNCHANGED << board, stack, backtracks >>
         ELSE LET top == stack[Len(stack)] IN
                IF result
                  THEN /\ stack' = SubSeq(stack, 1, Len(stack) - 1)
                       /\ pc' = pc
                       /\ UNCHANGED << board, backtracks >>
                  ELSE /\ backtracks' = backtracks + 1
                       /\ board' = board
                       /\ stack' = [stack EXCEPT ![Len(stack)].num = top.num + 1]
                       /\ pc' = "try"
    /\ UNCHANGED << input, prop, solved_SC_grid, solved_fully, first,
                    recursive_calls, result >>

\* steps 3c and 3d in the caller, or the end of the outermost invocation
SolveReturn ==
    /\ pc = "ret"
    /\ IF stack = << >>
         THEN /\ pc' = IF result THEN "solved" ELSE "failed"
              /\ UNCHANGED << board, stack, backtracks >>
         ELSE LET top == stack[Len(stack)] IN
                IF result
                  THEN /\ stack' = SubSeq(stack, 1, Len(stack) - 1)
                       /\ pc' = pc
                       /\ UNCHANGED << board, backtracks >>
                  ELSE /\ backtracks' = backtracks + 1
                       /\ board' = [board EXCEPT ![top.cell] = 0]
                       /\ stack' = [stack EXCEPT ![Len(stack)].num = top.num + 1]
                       /\ pc' = "try"
    /\ UNCHANGED << input, prop, solved_SC_grid, solved_fully, first,
                    recursive_calls, result >>

----------------------------------------------------------------------------
(* A second call of simple_algorithm on the grid the first one returned.   *)

Reapply ==
    /\ pc = "prompt"
    /\ first = << >>
    /\ first' = << solved_SC_grid, solved_fully >>
    /\ grid' = solved_SC_grid
    /\ grid_changed' = FALSE
    /\ pc' = "compute"
    /\ UNCHANGED << input, candidates, made_a_placement, r, c, value, i,
                    solved_SC_grid, solved_fully, search >>

----------------------------------------------------------------------------
Propagate ==
    \/ Call
    \/ ComputeCandidates
    \/ NakedSingle
    \/ NakedDone
    \/ HiddenRow
    \/ HiddenCol
    \/ HiddenBox
    \/ EndPass
    \/ Return

Next ==
    \/ Propagate
    \/ Prompt
    \/ SolveEnter
    \/ SolveTry
    \/ SolveExhausted
    \/ SolveReturn

\* the program: propagation, the prompt, the search
Spec == Init /\ [][Next]_vars

\* the program under the scheduling of a single thread: a step that can be
\* taken is taken
FairSpec == Spec /\ WF_vars(Next)

NextTwice ==
    \/ Propagate
    \/ Reapply

\* simple_algorithm called on an input and then on its own output
SpecTwice == Init /\ [][NextTwice]_vars

----------------------------------------------------------------------------
(* What the properties below are stated with.                              *)

\* every unit holds every digit exactly once
Complete(g) ==
    \A U \in Units : \A d \in Digits : Cardinality({ p \in U : g[p] = d }) = 1

Peers(q) ==
    { p \in Cells : p # q /\ \E U \in Units : p \in U /\ q \in U }

RECURSIVE Extensions(_)
\* the complete grids that extend g, for a g without duplicates
Extensions(g) ==
    IF \A q \in Cells : g[q] # 0
      THEN { g }
      ELSE LET q == CHOOSE x \in Cells : g[x] = 0
           IN  UNION { Extensions([g EXCEPT ![q] = d]) :
                         d \in Digits \ { g[p] : p \in Peers(q) } }

\* the solutions of a board
Solutions(g) == IF Valid(g) THEN Extensions(g) ELSE { }

\* simple_algorithm has been called and has not returned
Running ==
    pc \in { "call", "compute", "naked", "rows", "cols", "boxes", "endpass", "return" }

\* the naked-single loop is at a cell with one candidate: its step assigns
NakedPlacing ==
    /\ pc = "naked"
    /\ i <= Len(Keys(candidates))
    /\ Cardinality(candidates[Keys(candidates)[i]]) = 1

\* the list the running hidden-single branch builds
HiddenHold ==
    CASE pc = "rows" -> RowHold
      [] pc = "cols" -> ColHold
      [] pc = "boxes" -> BoxHold

\* the still-empty cells of the unit under examination that can hold value
HiddenFound ==
    CASE pc = "rows" -> Qualifying(RowEmptyCells(grid, i), value, candidates)
      [] pc = "cols" -> Qualifying(ColEmptyCells(grid, i), value, candidates)
      [] pc = "boxes" ->
           Qualifying(BoxEmptyCells(grid, BoxSide * (i \div BoxSide),
                                    BoxSide * (i % BoxSide)), value, candidates)

\* a hidden-single branch has found exactly one cell: its step assigns
HiddenPlacing ==
    /\ pc \in { "rows", "cols", "boxes" }
    /\ Len(HiddenFound) = 1

\* the next step of simple_algorithm assigns a digit to a cell
Placing == NakedPlacing \/ HiddenPlacing

\* the cell and the digit of that assignment
Target == IF pc = "naked" THEN Keys(candidates)[i] ELSE HiddenHold[1]
PlacedDigit ==
    IF pc = "naked" THEN CHOOSE x \in candidates[Keys(candidates)[i]] : TRUE
                    ELSE value

\* the candidate map has just been computed
Computed == pc = "naked" /\ i = 1

----------------------------------------------------------------------------
(* The properties.                                                         *)

\* C1: from an input without a duplicate in any row, column or box, every
\* board that simple_algorithm writes, and the one it returns, is without a
\* duplicate as well.
C1_ValidityPreserved ==
    (Valid(input) /\ (Running \/ pc = "prompt")) => Valid(grid)

\* C2: for a solvable input, a run in which the search phase follows the
\* propagation ends with a grid in which every row, column and box holds
\* each digit exactly once.
C2_SolvedAfterSearch ==
    (pc \in { "solved", "failed" } /\ Solutions(input) # { })
        => (pc = "solved" /\ Complete(board))

\* C3: simple_algorithm assigns only to cells that hold 0 at that moment, and
\* every given of the input holds its value in the returned board.
C3_AssignsOnlyEmptyCells ==
    /\ Placing => grid[Target] = 0
    /\ pc = "prompt" =>
         \A q \in Cells : input[q] # 0 => solved_SC_grid[q] = input[q]

\* C4: for an input without duplicates that has exactly one solution S, every
\* candidate set just computed for a cell q contains S[q], and every digit
\* simple_algorithm assigns to a cell q is S[q].
C4_SolutionKept ==
    (Computed \/ Placing) =>
        LET sols == Solutions(input) IN
          Cardinality(sols) = 1 =>
            LET S == CHOOSE x \in sols : TRUE IN
              /\ Computed => \A q \in DOMAIN candidates : S[q] \in candidates[q]
              /\ Placing => PlacedDigit = S[Target]

\* C5: when simple_algorithm is called on the grid an earlier call returned,
\* it returns that grid unchanged, cell for cell, with the flag False.
C5_Idempotent ==
    (pc = "prompt" /\ first # << >>)
        => (solved_SC_grid = first[1] /\ solved_fully = FALSE)

\* C5 witness: a first call that changed its input and left empty cells has
\* been followed by a second call that returned.
C5_Witness ==
    /\ pc = "prompt"
    /\ first # << >>
    /\ first[2] = TRUE
    /\ \E q \in Cells : first[1][q] = 0

\* C6: the while loop of simple_algorithm terminates on every input without
\* duplicates (every input Init draws is one): in every run the function
\* eventually returns.
C6_Terminates == <>(~Running)

\* C7: when the search reports failure, every cell of the board equals the
\* cell of the grid the propagation returned.
C7_FailureRestores == pc = "failed" => board = solved_SC_grid

\* C7 witness: the search has failed on an input without duplicates and
\* without a solution, after undoing at least one placement.
C7_Witness ==
    /\ pc = "failed"
    /\ backtracks >= 1
    /\ result = FALSE
    /\ Solutions(input) = { }
    /\ Valid(input)

\* C8: the flag simple_algorithm returns is True exactly when the returned
\* grid differs from the input grid in some cell.
C8_FlagIffChanged ==
    pc = "prompt" => (solved_fully <=> (solved_SC_grid # input))

\* C8 witness: the flag is True for a returned grid that still has an empty
\* cell, so it does not say that the grid is solved.
C8_Witness ==
    /\ pc = "prompt"
    /\ solved_fully = TRUE
    /\ solved_SC_grid # input
    /\ \E q \in Cells : solved_SC_grid[q] = 0

\* C9: when exactly one still-empty cell of the unit under examination can
\* hold the digit, the hidden-single step assigns the digit at that cell.
C9_HiddenTarget == HiddenPlacing => HiddenHold[1] = HiddenFound[1]

\* C10: every placement is decided from a candidate map computed after the
\* placement before it: no placement has been made in the pass when
\* simple_algorithm is about to make one.
C10_FreshCandidates == Placing => made_a_placement = FALSE

====
